---- MODULE Spec2Model ----
(***************************************************************************)
(* A model of the AIM3S video tooling: generate_multicam_video (the        *)
(* multi-camera synchronizer), generate_video (the compositor / player),   *)
(* the batch coordinator of generate_video.py's __main__, and the helpers  *)
(* of aux_tools.py they use.                                               *)
(*                                                                         *)
(* Time.  A datetime is an integer number of ticks; a tick is the          *)
(* resolution of datetime/timedelta (one microsecond in Python, scaled     *)
(* down to 1/TicksPerSec of a second here).  Floats of seconds             *)
(* (total_seconds) are kept exact, as ticks.                               *)
(***************************************************************************)
EXTENDS Integers, Sequences, FiniteSets, TLC

\* ---------------------------------------------------------------- bounds
TicksPerSec == 2      \* resolution of datetime/timedelta (ticks per second)
MaxT        == 3      \* camera timestamps are drawn from 0..MaxT ticks
MaxLen      == 3      \* frames per camera stream: 1..MaxLen
MaxFps      == 4      \* video_fps is drawn from FpsValues

\* ------------------------------------------------------- small utilities
Abs(x) == IF x < 0 THEN -x ELSE x

Range(s) == {s[i] : i \in 1..Len(s)}

Last(s) == s[Len(s)]

\* aux_tools._min / _max
_min(a, b) == IF a < b THEN a ELSE b

_max(a, b) == IF a > b THEN a ELSE b

\* datetime.min / datetime.max with the default timezone (generate_video.py 30-31):
\* below / above every timestamp of the model.
DatetimeMin == -1000

DatetimeMax == 1000

\* ---------------------------------------------------------- timedelta
\* round(a/b) to the nearest integer, halves to the even one (a >= 0, b > 0):
\* the rounding timedelta() applies to a float number of seconds.
RoundHalfEven(a, b) ==
  LET q == a \div b
      r == a % b
  IN  IF 2 * r < b THEN q
      ELSE IF 2 * r > b THEN q + 1
      ELSE IF q % 2 = 0 THEN q ELSE q + 1

\* timedelta(seconds=1.0/video_fps) in ticks, video_fps # 0.
Timedelta(video_fps) ==
  IF video_fps > 0 THEN RoundHalfEven(TicksPerSec, video_fps)
  ELSE -RoundHalfEven(TicksPerSec, -video_fps)

\* ---------------------------------------------------------- date_range
\* date_range with the end included (t <= t_end): a closed range.
RECURSIVE DateRangeClosed(_, _, _)
DateRangeClosed(t, t_end, t_delta) ==
  IF t <= t_end THEN <<t>> \o DateRangeClosed(t + t_delta, t_end, t_delta)
  ELSE <<>>

\* The timestamps date_range yields while t < t_end (t_delta > 0).
RECURSIVE DateRangeSeq(_, _, _)
DateRangeSeq(t, t_end, t_delta) ==
  IF t < t_end THEN <<t>> \o DateRangeSeq(t + t_delta, t_end, t_delta)
  ELSE <<>>

\* list(date_range(t_start, t_end, t_delta)): what the call ends in, and the list.
\*   "raise"   : t_delta is zero
\*   "diverge" : t_delta < 0 and t_start < t_end: t moves away from t_end, the
\*               loop never sees t >= t_end; it goes on yielding until list()
\*               runs out of memory or t += t_delta leaves the range of datetime
\* date_range without its check of t_delta.
date_range_unchecked(t_start, t_end, t_delta) ==
  IF t_delta <= 0 /\ t_start < t_end THEN [kind |-> "diverge", seq |-> <<>>]
  ELSE IF t_delta <= 0 THEN [kind |-> "ok", seq |-> <<>>]
  ELSE [kind |-> "ok", seq |-> DateRangeSeq(t_start, t_end, t_delta)]

date_range(t_start, t_end, t_delta) ==
  IF t_delta = 0 THEN [kind |-> "raise", seq |-> <<>>]
  ELSE IF t_delta < 0 /\ t_start < t_end THEN [kind |-> "diverge", seq |-> <<>>]
  ELSE IF t_delta < 0 THEN [kind |-> "ok", seq |-> <<>>]
  ELSE [kind |-> "ok", seq |-> DateRangeSeq(t_start, t_end, t_delta)]

\* aux_tools.time_to_float(t_arr, t_ref)
time_to_float(t_arr, t_ref) ==
  SubSeq([i \in 1..Len(t_arr) |-> t_arr[i] - t_ref], 1, Len(t_arr))

\* str(t) of a datetime: the whole seconds and the fraction are printed apart.
DatetimeStr(t) ==
  LET sec == IF t >= 0 THEN t \div TicksPerSec ELSE -((-t + TicksPerSec - 1) \div TicksPerSec)
  IN  <<sec, t - sec * TicksPerSec>>

\* aux_tools.str_to_datetime
str_to_datetime(s) == s[1] * TicksPerSec + s[2]

\* ------------------------------------------- interp1d(kind='nearest')
\* scipy: x_bds = x/2.0; x_bds = x_bds[1:] + x_bds[:-1]   (the midpoints).
\* Kept doubled, so that they stay integers: XBds2(x)[i] = x[i] + x[i+1].
XBds2(x) == SubSeq([i \in 1..(Len(x) - 1) |-> x[i] + x[i + 1]], 1, Len(x) - 1)

\* numpy.searchsorted(a, v, side='left') on a sorted a: how many entries are < v.
\* Both sides are doubled.
SearchSortedLeft(a2, v2) == Cardinality({i \in 1..Len(a2) : a2[i] < v2})

Clip(v, lo, hi) == IF v < lo THEN lo ELSE IF v > hi THEN hi ELSE v

\* interp1d(x, range(len(x)), kind='nearest', assume_sorted=True)(x_new):
\* 0-based frame indices; bounds_error when a point lies outside [x[0], x[-1]].
Interp1dNearest(x, x_new) ==
  IF \E k \in 1..Len(x_new) : x_new[k] < x[1] \/ x_new[k] > Last(x)
  THEN [kind |-> "ValueError", y |-> <<>>]
  ELSE [kind |-> "ok",
        y |-> [k \in 1..Len(x_new) |->
                 Clip(SearchSortedLeft(XBds2(x), 2 * x_new[k]), 0, Len(x) - 1)]]

\* .astype(np.uint16)
AsUint16(v) == v % 65536

\* ------------------------------------------------ generate_multicam_video
\* for cam in (range(4))
NumCams == 4

Cams == 1..NumCams

VARIABLES
  cams,         \* camera_timestamps: per camera, the t_str of its .h5 (sorted ticks)
  cam_frames,   \* per camera, how many frames its .mp4 really holds
  video,        \* the stitched video file multicam_<t>.mp4
  h5,           \* the persisted alignment multicam_<t>.h5
  pc,           \* "idle" | "frames" (in the frame loop) | "opening" | "hung"
  caller,       \* who called generate_multicam_video: "direct" | "generate_video"
  outcome,      \* how the last call ended
  args,         \* overwrite, video_fps, t_start, t_end, visualize of the running call
                \* (after the call, only its overwrite is kept)
  t_cam,        \* the virtual timeline computed by the last run that wrote h5
  frame_nums,   \* the frame-index table computed by that run
  mc_n,         \* n of the frame loop of generate_multicam_video (0-based)
  handles,      \* video / encoder / file handles the call opened and has not released
  p_t_cam       \* generate_video: its t_cam (in multicam mode rebuilt from h5)

syncvars == <<cams, cam_frames, video, h5, pc, caller, outcome, args, t_cam,
              frame_nums, mc_n, handles, p_t_cam>>

\* generate_video: the playback loop (lines 160-253).  Its times are counted in
\* units of TIME_INCREMENT (0.1 s).
VARIABLES
  p_pc,                    \* "off" | "loop" | "done"
  cfg,                     \* the arguments and the opened video (fixed during a session)
  n,                       \* frame number (the cursor)
  is_paused,
  refresh_weight,
  do_skip_frames,
  weight_to_cam_t_offset,
  pos,                     \* video_in: CAP_PROP_POS_FRAMES, the next frame it decodes
  shown,                   \* index of the frame held in rgb_data (-1: none yet)
  step,                    \* what the last pass through the loop body did
  p_handles,               \* handles generate_video opened and has not released
  p_ret                    \* the value generate_video returned

playvars == <<p_pc, cfg, n, is_paused, refresh_weight, do_skip_frames,
              weight_to_cam_t_offset, pos, shown, step, p_handles, p_ret>>

\* __main__ with --multi-cam (lines 269-282): the pool and its coordinator.
VARIABLES
  tasks,        \* per submitted task: "queued" | "running" | "ok" | "failed"
  fails,        \* per task: whether generate_multicam_video raises in it
  runs,         \* per task: how many times a worker has started it
  m_pc,         \* "off" | "waiting" | "exited"
  m_i,          \* the task the coordinator waits for (0-based)
  reported      \* the tasks the coordinator has reported as failed, in order

batchvars == <<tasks, fails, runs, m_pc, m_i, reported>>

\* aux_tools.ExperimentTraverser.run (lines 131-144).
VARIABLES
  main_folder,      \* the names of the subfolders of self.main_folder
  start_datetime,   \* self.start_datetime
  end_datetime,     \* self.end_datetime
  subfolders,       \* what list_subfolders returned
  f_idx,            \* how many of them the for loop has visited
  processed,        \* the arguments of the calls of process_subfolder, in order
  skipped,          \* the names printed as "Can't parse the name of this folder"
  done_calls,       \* how often on_done was called
  tr_pc             \* "off" | "start" | "loop" | "returned"

travvars == <<main_folder, start_datetime, end_datetime, subfolders, f_idx,
              processed, skipped, done_calls, tr_pc>>

vars == <<syncvars, playvars, batchvars, travvars>>

\* Sorted (non-decreasing) timestamp series of 1..MaxLen frames.
Streams ==
  {s \in UNION {[1..l -> 0..MaxT] : l \in 1..MaxLen} :
     \A i \in 1..(Len(s) - 1) : s[i] <= s[i + 1]}

\* Two-frame series: a camera that covers everything, and one that cuts the covered
\* window at both ends.
Windows == {<<0, MaxT>>, <<1, MaxT - 1>>}

\* The last one is a rate whose period is below the resolution of timedelta.
FpsValues == {-1} \cup (0..MaxFps) \cup {2 * TicksPerSec + 1}

\* (t_start, t_end) of the call, as ticks: the defaults (0 s, -1 s), and a window
\* that starts late and ends early.
ClipValues == {<<0, -TicksPerSec>>, <<1, 1>>}

NoArgs == [overwrite |-> FALSE, video_fps |-> 0, t_start |-> 0, t_end |-> 0,
           visualize |-> FALSE]

NoVideo == [exists |-> FALSE, frames |-> <<>>, released |-> FALSE]

NoH5 == [exists |-> FALSE, complete |-> FALSE, t_start |-> <<>>, t_end |-> <<>>,
         fps |-> 0, frame_nums |-> <<>>]

\* h5py.File(..., 'w'): the file is created, or truncated, with nothing in it.
EmptyH5 == [NoH5 EXCEPT !.exists = TRUE]

CamHandles == {<<"videos_in", c>> : c \in Cams} \cup {<<"camera_info", c>> : c \in Cams}

\* generate_video.py 30-38: t_latest_start and t_earliest_end over the cameras.
RECURSIVE LatestStart(_, _)
LatestStart(ts, c) ==
  IF c = 0 THEN DatetimeMin ELSE _max(ts[c][1], LatestStart(ts, c - 1))

RECURSIVE EarliestEnd(_, _)
EarliestEnd(ts, c) ==
  IF c = 0 THEN DatetimeMax ELSE _min(Last(ts[c]), EarliestEnd(ts, c - 1))

\* generate_video.py 42-46: one row of frame_nums.
FrameNumsRow(t, t_latest_start, timeline) ==
  LET r == Interp1dNearest(time_to_float(t, t_latest_start),
                           time_to_float(timeline, t_latest_start))
  IN  [kind |-> r.kind, row |-> [k \in 1..Len(r.y) |-> AsUint16(r.y[k])]]

\* generate_video.py 42-46: the table over the timeline dr = list(date_range(...)),
\* or the exception that ends the computation.
FrameNums(ts, t_latest_start, dr) ==
  IF dr.kind = "raise"
  THEN [kind |-> "Exception", t_cam |-> <<>>, frame_nums |-> <<>>]
  ELSE IF dr.kind = "diverge"
  THEN [kind |-> "diverge", t_cam |-> <<>>, frame_nums |-> <<>>]
  ELSE IF \E c \in Cams : FrameNumsRow(ts[c], t_latest_start, dr.seq).kind # "ok"
  THEN [kind |-> "ValueError", t_cam |-> <<>>, frame_nums |-> <<>>]
  ELSE [kind |-> "ok", t_cam |-> dr.seq,
        frame_nums |-> [c \in Cams |-> FrameNumsRow(ts[c], t_latest_start, dr.seq).row]]

\* generate_video.py 41: t_cam = list(date_range(t_latest_start, t_earliest_end,
\* timedelta(seconds=1.0/video_fps))), then lines 42-46.
ComputeAlignment(ts, video_fps) ==
  IF video_fps = 0
  THEN [kind |-> "ZeroDivisionError", t_cam |-> <<>>, frame_nums |-> <<>>]
  ELSE FrameNums(ts, LatestStart(ts, NumCams),
                 date_range(LatestStart(ts, NumCams), EarliestEnd(ts, NumCams),
                            Timedelta(video_fps)))

\* generate_video.py 55-59: what the 'with h5py.File(..., "w")' block leaves on disk.
\* The file is truncated first; t_cam[0] raises IndexError on an empty timeline
\* before any attribute is written.
WriteH5(timeline, video_fps, table) ==
  IF Len(timeline) = 0 THEN EmptyH5
  ELSE [exists |-> TRUE, complete |-> TRUE,
        t_start |-> DatetimeStr(timeline[1]),
        t_end |-> DatetimeStr(Last(timeline)),
        fps |-> video_fps, frame_nums |-> table]

\* cv2.VideoCapture.read(image) returns the pair (retval, image).
VideoRead(retval) == <<retval, "image">>

\* bool(ok) of an 'assert ok': a tuple is true when it is not empty.
Truthy(ok) == Len(ok) > 0

\* generate_video.py 64: the frame lies outside the clip window and is skipped.
ClipSkip(curr_t, t_start, t_end) == curr_t < t_start \/ (t_end > 0 /\ curr_t > t_end)

\* Lines 20-23 with the test of overwrite inverted.
ReturnsExistingInverted(exists, overwrite) == exists /\ overwrite

\* generate_video.py 20-23: the call returns at once, the output being there.
ReturnsExisting(exists, overwrite) == exists /\ ~overwrite

ReturnTo(who) == IF who = "generate_video" THEN "opening" ELSE "idle"

\* A call's arguments (who, overwrite, visualize): a direct call passes anything;
\* generate_video (line 102) leaves overwrite and visualize at their defaults.
CallModes == {<<"direct", FALSE, TRUE>>, <<"direct", TRUE, TRUE>>,
              <<"generate_video", FALSE, FALSE>>}

\* generate_video.py 16-59 with a = the alignment lines 41-46 compute.
MulticamCall(video_fps, a) ==
  \E m \in CallModes, clip \in ClipValues :
    LET who       == m[1]
        overwrite == m[2]
        visualize == m[3]
    IN
    /\ caller' = who
    /\ IF ReturnsExisting(video.exists, overwrite)
       THEN /\ outcome' = "existing"
            /\ pc' = ReturnTo(who)
            /\ handles' = {}
            /\ args' = [NoArgs EXCEPT !.overwrite = overwrite]
            /\ UNCHANGED <<video, h5, t_cam, frame_nums>>
       ELSE IF a.kind # "ok"
       THEN \* line 41 or 45 raises, or line 41 never returns
            /\ outcome' = a.kind
            /\ pc' = IF a.kind = "diverge" THEN "hung" ELSE "idle"
            /\ handles' = CamHandles
            /\ args' = [NoArgs EXCEPT !.overwrite = overwrite, !.video_fps = video_fps]
            /\ UNCHANGED <<video, h5, t_cam, frame_nums>>
       ELSE \* lines 49-59: the encoder is opened, then the alignment written
            /\ video' = [exists |-> TRUE, frames |-> <<>>, released |-> FALSE]
            /\ h5' = WriteH5(a.t_cam, video_fps, a.frame_nums)
            /\ t_cam' = a.t_cam
            /\ frame_nums' = a.frame_nums
            /\ handles' = CamHandles \cup {<<"video_out", 0>>}
            /\ IF Len(a.t_cam) = 0
               THEN /\ outcome' = "IndexError"
                    /\ pc' = "idle"
                    /\ args' = [NoArgs EXCEPT !.overwrite = overwrite,
                                               !.video_fps = video_fps]
               ELSE /\ outcome' = "running"
                    /\ pc' = "frames"
                    /\ args' = [overwrite |-> overwrite, video_fps |-> video_fps,
                                t_start |-> clip[1], t_end |-> clip[2],
                                visualize |-> visualize]

\* generate_video.py 16-59: a call of generate_multicam_video up to its frame loop,
\* with video_fps and any of the other arguments.
generate_multicam_video(video_fps) ==
  /\ pc = "idle"
  /\ UNCHANGED <<playvars, batchvars, travvars>>
  /\ mc_n' = 0
  /\ p_t_cam' = <<>>
  /\ UNCHANGED <<cams, cam_frames>>
  /\ MulticamCall(video_fps, ComputeAlignment(cams, video_fps))

\* generate_video.py 62-95: one iteration of the frame loop and, when it ends the
\* loop, the release of the encoder and the return.
generate_multicam_video_frame(key) ==
  /\ pc = "frames"
  /\ UNCHANGED <<playvars, batchvars, travvars>>
  /\ UNCHANGED <<cams, cam_frames, h5, caller, t_cam, frame_nums, p_t_cam>>
  /\ LET curr_t  == t_cam[mc_n + 1] - t_cam[1]
         skip    == ClipSkip(curr_t, args.t_start, args.t_end)
         \* lines 67-68: seek to frame_nums[i,n] and read it
         ok      == [c \in Cams |-> VideoRead(frame_nums[c][mc_n + 1] < cam_frames[c])]
         failed  == {c \in Cams : ~ok[c][1]}
         abort   == ~skip /\ \E c \in Cams : ~Truthy(ok[c])
         break   == ~skip /\ args.visualize /\ key
         ends    == break \/ mc_n + 1 = Len(t_cam)
         written == IF skip THEN video.frames
                    ELSE Append(video.frames, [n |-> mc_n, failed |-> failed])
     IN  IF abort
         THEN /\ outcome' = "AssertionError"
              /\ pc' = "idle"
              /\ args' = [NoArgs EXCEPT !.overwrite = args.overwrite]
              /\ UNCHANGED <<video, mc_n, handles>>
         ELSE IF ends
         THEN /\ video' = [video EXCEPT !.frames = written, !.released = TRUE]
              /\ handles' = handles \ {<<"video_out", 0>>}
              /\ outcome' = "returned"
              /\ pc' = ReturnTo(caller)
              /\ args' = [NoArgs EXCEPT !.overwrite = args.overwrite]
              /\ mc_n' = 0
         ELSE /\ video' = [video EXCEPT !.frames = written]
              /\ mc_n' = mc_n + 1
              /\ UNCHANGED <<outcome, pc, args, handles>>

\* generate_video.py 102-105: back in generate_video, the stitched video is opened
\* and the timeline rebuilt from the persisted attributes.
generate_video_open ==
  /\ pc = "opening"
  /\ UNCHANGED <<playvars, batchvars, travvars>>
  /\ pc' = "idle"
  /\ handles' = handles \cup {<<"video_in", 0>>}
  /\ UNCHANGED <<cams, cam_frames, video, h5, caller, args, t_cam, frame_nums, mc_n>>
  /\ IF ~h5.complete
     THEN /\ outcome' = "KeyError"
          /\ UNCHANGED p_t_cam
     ELSE LET dr == date_range(str_to_datetime(h5.t_start), str_to_datetime(h5.t_end),
                               Timedelta(h5.fps))
          IN  /\ outcome' = IF dr.kind = "ok" THEN "opened" ELSE "Exception"
              /\ p_t_cam' = dr.seq

\* No traversal.
TravOff ==
  /\ main_folder = {}
  /\ start_datetime = DatetimeMin
  /\ end_datetime = DatetimeMax
  /\ subfolders = <<>>
  /\ f_idx = 0
  /\ processed = <<>>
  /\ skipped = <<>>
  /\ done_calls = 0
  /\ tr_pc = "off"

PlayOff ==
  /\ p_pc = "off"
  /\ cfg = <<>>
  /\ n = -1
  /\ is_paused = FALSE
  /\ refresh_weight = TRUE
  /\ do_skip_frames = FALSE
  /\ weight_to_cam_t_offset = 0
  /\ pos = 0
  /\ shown = -1
  /\ step = <<>>
  /\ p_handles = {}
  /\ p_ret = <<>>

BatchOff ==
  /\ tasks = <<>>
  /\ fails = <<>>
  /\ runs = <<>>
  /\ m_pc = "off"
  /\ m_i = 0
  /\ reported = <<>>

InitSync ==
  /\ TravOff
  /\ PlayOff
  /\ BatchOff
  /\ \E s \in Streams, w \in Windows : cams = <<s, w, s, w>>
  /\ \E short \in 0..1 :
        cam_frames = [c \in Cams |-> IF c = 1 THEN Len(cams[c]) - short ELSE Len(cams[c])]
  /\ video = NoVideo
  /\ h5 = NoH5
  /\ pc = "idle"
  /\ caller = "direct"
  /\ outcome = "none"
  /\ args = NoArgs
  /\ t_cam = <<>>
  /\ frame_nums = <<>>
  /\ mc_n = 0
  /\ handles = {}
  /\ p_t_cam = <<>>

NextSync ==
  \/ \E fps \in FpsValues : generate_multicam_video(fps)
  \/ \E key \in BOOLEAN : generate_multicam_video_frame(key)
  \/ generate_video_open

SpecSync == InitSync /\ [][NextSync]_vars

\* A camera whose video holds more frames than a 16-bit index can number: frame 0
\* at tick 0, frames 1..65535 at tick 1, frame 65536 at tick 2 and frame 65537 at
\* tick MaxT.
LongStream ==
  SubSeq([i \in 1..65538 |-> IF i = 1 THEN 0 ELSE IF i <= 65536 THEN 1
                              ELSE IF i = 65537 THEN 2 ELSE MaxT], 1, 65538)

\* generate_video.py 28-38: as InitSync, with camera 1 recording a long video.
InitLong ==
  /\ TravOff
  /\ PlayOff
  /\ BatchOff
  /\ \E w \in Windows : cams = <<LongStream, w, w, w>>
  /\ \E short \in 0..1 :
        cam_frames = [c \in Cams |-> IF c = 1 THEN Len(cams[c]) - short ELSE Len(cams[c])]
  /\ video = NoVideo
  /\ h5 = NoH5
  /\ pc = "idle"
  /\ caller = "direct"
  /\ outcome = "none"
  /\ args = NoArgs
  /\ t_cam = <<>>
  /\ frame_nums = <<>>
  /\ mc_n = 0
  /\ handles = {}
  /\ p_t_cam = <<>>

SpecLong == InitLong /\ [][NextSync]_vars

\* ------------------------------------------------------------ generate_video
\* No synchronizer call: the playback loop is looked at on its own.
SyncOff ==
  /\ cams = <<>>
  /\ cam_frames = <<>>
  /\ video = NoVideo
  /\ h5 = NoH5
  /\ pc = "off"
  /\ caller = "direct"
  /\ outcome = "none"
  /\ args = NoArgs
  /\ t_cam = <<>>
  /\ frame_nums = <<>>
  /\ mc_n = 0
  /\ handles = {}

PlayLen   == 10     \* len(t_cam) of a session
MaxShift  == 10     \* the time offset is moved at most this far from its start
ClipFrom  == 3      \* t_start of the clipped sessions (units of TIME_INCREMENT)
ClipTo    == 6      \* t_end of the clipped sessions

\* TIME_INCREMENT = timedelta(seconds=0.1): so many of them make a second.
IncrementsPerSec == 10

\* weight_to_cam_t_offset = weight_t[0] + timedelta(seconds=13)
OffsetSeconds == 13

FRAME_INCREMENT == 8

LEFT_RIGHT_MULTIPLIER == 10

TIME_INCREMENT == 1

\* weight_t[0]
WeightT0 == 0

InitialOffset == WeightT0 + OffsetSeconds * IncrementsPerSec

\* What cv2.waitKeyEx returns: the key codes the loop tells apart, any other key,
\* and -1 ("none") when the wait timed out.
Keys == {"left", "right", "up", "down", "a", "d", "w", "s", "b", "n", "space",
         "esc", "other", "none"}

\* (visualize, save_video, cb_event_start_or_end is not None): the interactive
\* player, the labelling player, the command line (line 284), and both outputs.
PlayModes == {<<TRUE, FALSE, FALSE>>, <<TRUE, FALSE, TRUE>>, <<FALSE, TRUE, FALSE>>,
              <<TRUE, TRUE, FALSE>>}

PlayClips == {<<0, -IncrementsPerSec>>, <<ClipFrom, ClipTo>>}

\* Only the start of the clip window is tested.
PlayClipSkipStartOnly(curr_t, t_start, t_end) == t_start > 0 /\ curr_t < t_start

\* generate_video.py 177: the frame lies outside the clip window.
PlayClipSkip(curr_t, t_start, t_end) ==
  (t_start > 0 /\ curr_t < t_start) \/ (t_end > 0 /\ curr_t > t_end)

\* The seek without the stream's clamping.
SeekUnclamped(target, frames) == target

\* generate_video.py 245-246: video_in.set(CAP_PROP_POS_FRAMES, n) followed by
\* video_in.get(CAP_PROP_POS_FRAMES): the stream keeps the position inside
\* 0..frame count.
SeekClamp(target, frames) == Clip(target, 0, frames)

\* generate_video.py 203-218: the cursor after an arrow key.
ArrowTarget(k, cursor) ==
  CASE k = "left"  -> cursor - LEFT_RIGHT_MULTIPLIER * FRAME_INCREMENT
    [] k = "right" -> cursor + LEFT_RIGHT_MULTIPLIER * FRAME_INCREMENT
    [] k = "up"    -> cursor + FRAME_INCREMENT
    [] k = "down"  -> cursor - FRAME_INCREMENT
    [] OTHER       -> cursor

\* The keys a/d and w/s with their signs swapped.
OffsetAfterSwapped(k, offset) ==
  CASE k = "a" -> offset + LEFT_RIGHT_MULTIPLIER * TIME_INCREMENT
    [] k = "d" -> offset - LEFT_RIGHT_MULTIPLIER * TIME_INCREMENT
    [] k = "w" -> offset + TIME_INCREMENT
    [] k = "s" -> offset - TIME_INCREMENT
    [] OTHER   -> offset

\* generate_video.py 219-230: the time offset after a key.
OffsetAfter(k, offset) ==
  CASE k = "a" -> offset - LEFT_RIGHT_MULTIPLIER * TIME_INCREMENT
    [] k = "d" -> offset + LEFT_RIGHT_MULTIPLIER * TIME_INCREMENT
    [] k = "w" -> offset - TIME_INCREMENT
    [] k = "s" -> offset + TIME_INCREMENT
    [] OTHER   -> offset

\* Every unrecognized key ends the session, callback or not.
IsExitKeyAnyMode(k, has_cb) ==
  /\ k \notin {"left", "right", "up", "down", "a", "d", "w", "s", "space", "none"}
  /\ ~(k \in {"b", "n"} /\ has_cb)

\* generate_video.py 237: the key ends the session.  It is reached only by keys no
\* earlier branch took.
IsExitKey(k, has_cb) ==
  /\ k \notin {"left", "right", "up", "down", "a", "d", "w", "s", "space", "none"}
  /\ ~(k \in {"b", "n"} /\ has_cb)
  /\ (k = "esc" \/ ~has_cb)

\* The pause flag is not looked at.
AdvancesAlways(paused, skip_pending) == TRUE

\* generate_video.py 168: if not is_paused or do_skip_frames
Advances(paused, skip_pending) == ~paused \/ skip_pending

\* generate_video.py 167: while n < len(t_cam)-1
LoopGoesOn(cursor, len) == cursor < len - 1

\* The event is emitted whether a callback is configured or not.
CallbackEventAlways(k, has_cb, t) ==
  IF k \in {"b", "n"} THEN <<k = "b", t>> ELSE <<>>

\* generate_video.py 231-234: the call cb_event_start_or_end(True/False, t_cam[n])
\* a key leads to, <<>> for none.
CallbackEvent(k, has_cb, t) ==
  IF k \in {"b", "n"} /\ has_cb THEN <<k = "b", t>> ELSE <<>>

NoStep == [advanced |-> FALSE, read_ok |-> FALSE, composited |-> FALSE,
           written |-> FALSE, displayed |-> FALSE, polled |-> FALSE,
           moved |-> 0, exit |-> FALSE, event |-> <<>>,
           key |-> "none"]

\* generate_video.py 253: the returned pair.
ReturnValue(offset) == <<offset, WeightT0 - offset>>

\* generate_video.py 167-246: one pass through the body of the playback loop, k
\* being the key cv2.waitKeyEx returns if the pass reaches it; on an exit key, also
\* lines 248-253.
generate_video_loop(k) ==
  /\ p_pc = "loop"
  /\ LoopGoesOn(n, Len(p_t_cam))
  /\ UNCHANGED <<cams, cam_frames, video, h5, pc, caller, outcome, args, t_cam,
                 frame_nums, mc_n, handles, p_t_cam, batchvars, travvars,
                 cfg>>
  /\ Abs(OffsetAfter(k, weight_to_cam_t_offset) - InitialOffset) <= MaxShift
  /\ LET advance == Advances(is_paused, do_skip_frames)
         n1      == IF advance THEN n + 1 ELSE n
         \* line 170: ok is the pair read() returns
         ok      == VideoRead(pos < cfg.frames)
         read_ok == advance /\ ok[1]
         pos1    == IF read_ok THEN pos + 1 ELSE pos
         shown1  == IF read_ok THEN pos ELSE shown
         \* line 171, and line 176 or 232: t_cam[n] raises IndexError (a negative
         \* n counts from the end)
         abort   == \/ advance /\ ~Truthy(ok)
                    \/ n1 >= Len(p_t_cam) \/ n1 < -Len(p_t_cam)
         curr_t  == p_t_cam[(n1 % Len(p_t_cam)) + 1] - weight_to_cam_t_offset
         skip    == refresh_weight /\ PlayClipSkip(curr_t, cfg.t_start, cfg.t_end)
         st      == [NoStep EXCEPT !.advanced = advance, !.read_ok = read_ok]
     IN  IF abort
         THEN \* AssertionError or IndexError
              /\ p_pc' = "aborted"
              /\ n' = n1
              /\ step' = st
              /\ UNCHANGED <<is_paused, refresh_weight, do_skip_frames,
                             weight_to_cam_t_offset, pos, shown, p_handles, p_ret>>
         ELSE IF skip
         THEN \* line 177: continue
              /\ k = "none"
              /\ n' = n1
              /\ pos' = pos1
              /\ shown' = shown1
              /\ step' = st
              /\ UNCHANGED <<p_pc, is_paused, refresh_weight, do_skip_frames,
                             weight_to_cam_t_offset, p_handles, p_ret>>
         ELSE IF ~cfg.visualize
         THEN \* lines 178-194
              /\ k = "none"
              /\ n' = n1
              /\ pos' = pos1
              /\ shown' = shown1
              /\ step' = [st EXCEPT !.composited = refresh_weight,
                                    !.written = cfg.save_video]
              /\ UNCHANGED <<p_pc, is_paused, refresh_weight, do_skip_frames,
                             weight_to_cam_t_offset, p_handles, p_ret>>
         ELSE \* lines 178-246, the key k being polled (a paused poll blocks until
              \* a key comes)
              LET exit    == IsExitKey(k, cfg.has_cb)
                  arrow   == k \in {"left", "right", "up", "down"}
                  adjust  == k \in {"a", "d", "w", "s"}
                  paused1 == IF k = "space" THEN ~is_paused ELSE is_paused
                  seek    == SeekClamp(ArrowTarget(k, n1), cfg.frames)
                  event   == CallbackEvent(k, cfg.has_cb,
                                           p_t_cam[(n1 % Len(p_t_cam)) + 1])
              IN  /\ is_paused => k # "none"
                  /\ step' = [st EXCEPT !.composited = refresh_weight,
                                        !.written = cfg.save_video,
                                        !.displayed = ~is_paused \/ refresh_weight,
                                        !.polled = TRUE,
                                        !.key = k,
                                        !.moved = ArrowTarget(k, n1) - n1,
                                        !.exit = exit,
                                        !.event = event]
                  /\ shown' = shown1
                  /\ weight_to_cam_t_offset' = OffsetAfter(k, weight_to_cam_t_offset)
                  /\ is_paused' = paused1
                  /\ IF exit
                     THEN \* lines 238-241, then 248-253
                          /\ p_pc' = "done"
                          /\ n' = n1
                          /\ pos' = pos1
                          /\ do_skip_frames' = FALSE
                          /\ refresh_weight' = FALSE
                          /\ p_handles' = p_handles \ {"video_out"}
                          /\ p_ret' = ReturnValue(weight_to_cam_t_offset)
                     ELSE /\ do_skip_frames' = arrow
                          /\ refresh_weight' = (arrow \/ adjust \/ ~paused1)
                          /\ n' = IF arrow THEN seek ELSE n1
                          /\ pos' = IF arrow THEN seek ELSE pos1
                          /\ UNCHANGED <<p_pc, p_handles, p_ret>>

\* generate_video.py 167, 248-253: the loop condition fails; the encoder is released
\* and the offsets returned.
generate_video_return ==
  /\ p_pc = "loop"
  /\ ~LoopGoesOn(n, Len(p_t_cam))
  /\ p_pc' = "done"
  /\ p_handles' = p_handles \ {"video_out"}
  /\ p_ret' = ReturnValue(weight_to_cam_t_offset)
  /\ UNCHANGED <<syncvars, batchvars, travvars, cfg, n, is_paused, refresh_weight,
                 do_skip_frames, weight_to_cam_t_offset, pos, shown, step>>

\* generate_video.py 98-166: a session before the first pass of the loop.  The video
\* holds as many frames as t_cam has entries, one fewer, or one more.
InitPlay ==
  /\ TravOff
  /\ SyncOff
  /\ BatchOff
  /\ p_pc = "loop"
  /\ p_t_cam = [i \in 1..PlayLen |-> InitialOffset + (i - 1) * TIME_INCREMENT]
  /\ \E m \in PlayModes, c \in PlayClips, extra \in {-1, 0, 1} :
        cfg = [visualize |-> m[1], save_video |-> m[2], has_cb |-> m[3],
               t_start |-> c[1], t_end |-> c[2], frames |-> PlayLen + extra]
  /\ n = -1
  /\ is_paused = FALSE
  /\ refresh_weight = TRUE
  /\ do_skip_frames = FALSE
  /\ weight_to_cam_t_offset = InitialOffset
  /\ pos = 0
  /\ shown = -1
  /\ step = NoStep
  /\ p_handles = {"video_in"} \cup (IF cfg.save_video THEN {"video_out"} ELSE {})
  /\ p_ret = <<>>

NextPlay ==
  \/ \E k \in Keys : generate_video_loop(k)
  \/ generate_video_return

SpecPlay == InitPlay /\ [][NextPlay]_vars

\* ------------------------------------------------- __main__, --multi-cam
MaxFolders == 3     \* experiment folders under args.folder: 0..MaxFolders
PoolSize   == 2     \* cpu_count(): the workers of the pool

Running == {t \in 1..Len(tasks) : tasks[t] = "running"}

Queued == {t \in 1..Len(tasks) : tasks[t] = "queued"}

\* AsyncResult.successful() of a finished task, always true.
SuccessfulAlways(status) == TRUE

\* generate_video.py 281: AsyncResult.successful() of a finished task.
Successful(status) == status = "ok"

\* generate_video.py 275-277: the next folder is submitted to the pool.
main_apply_async ==
  /\ m_pc = "submit"
  /\ Len(tasks) < Len(fails)
  /\ tasks' = Append(tasks, "queued")
  /\ runs' = Append(runs, 0)
  /\ UNCHANGED <<syncvars, playvars, travvars, fails, m_pc, m_i, reported>>

\* A free worker of the pool takes the oldest queued task and calls
\* generate_multicam_video on its folder.
worker_start ==
  /\ Queued # {}
  /\ Cardinality(Running) < PoolSize
  /\ LET t == CHOOSE q \in Queued : \A r \in Queued : q <= r
     IN  /\ tasks' = [tasks EXCEPT ![t] = "running"]
         /\ runs' = [runs EXCEPT ![t] = @ + 1]
  /\ UNCHANGED <<syncvars, playvars, travvars, fails, m_pc, m_i, reported>>

\* The call of task t returns or raises; the pool stores the result or the
\* exception in the task's AsyncResult.
worker_finish(t) ==
  /\ t \in Running
  /\ tasks' = [tasks EXCEPT ![t] = IF fails[t] THEN "failed" ELSE "ok"]
  /\ UNCHANGED <<syncvars, playvars, travvars, fails, runs, m_pc, m_i, reported>>

\* generate_video.py 279-282: task_state.wait() returns, the task being finished,
\* and a failure is printed with the task's number.
main_wait ==
  /\ m_pc = "submit"
  /\ Len(tasks) = Len(fails)
  /\ m_i < Len(tasks)
  /\ tasks[m_i + 1] \in {"ok", "failed"}
  /\ reported' = IF Successful(tasks[m_i + 1]) THEN reported
                 ELSE Append(reported, m_i + 1)
  /\ m_i' = m_i + 1
  /\ UNCHANGED <<syncvars, playvars, travvars, tasks, fails, runs, m_pc>>

\* The loop of lines 279-282 is through: the program ends.
main_exit ==
  /\ m_pc = "submit"
  /\ Len(tasks) = Len(fails)
  /\ m_i = Len(tasks)
  /\ m_pc' = "exited"
  /\ UNCHANGED <<syncvars, playvars, travvars, tasks, fails, runs, m_i, reported>>

\* generate_video.py 269-274: the pool is there, no task submitted yet; fails says
\* in which folders generate_multicam_video raises.
InitBatch ==
  /\ TravOff
  /\ SyncOff
  /\ PlayOff
  /\ p_t_cam = <<>>
  /\ tasks = <<>>
  /\ runs = <<>>
  /\ fails \in UNION {[1..nf -> BOOLEAN] : nf \in 0..MaxFolders}
  /\ m_pc = "submit"
  /\ m_i = 0
  /\ reported = <<>>

NextBatch ==
  \/ main_apply_async
  \/ worker_start
  \/ \E t \in 1..MaxFolders : worker_finish(t)
  \/ main_wait
  \/ main_exit

\* The pool's workers and the coordinator keep running.
SpecBatch == InitBatch /\ [][NextBatch]_vars /\ WF_vars(NextBatch)

\* ------------------------------------- aux_tools.ExperimentTraverser.run
MaxStamp == 2       \* folder names carry the timestamps 0..MaxStamp

\* What may follow the timestamp in a folder name.
Tails == {"", "_ignore", "_old"}

\* A folder name: a timestamp written as "%Y-%m-%d_%H-%M-%S", and what follows it.
FolderNames == [stamp : 0..MaxStamp, tail : Tails]

\* The place of a tail in the order of strings: "" < "_ignore" < "_old".
TailRank(tail) == CASE tail = "" -> 0 [] tail = "_ignore" -> 1 [] OTHER -> 2

\* f < g as Python compares the two strings.
NameLess(f, g) ==
  \/ f.stamp < g.stamp
  \/ f.stamp = g.stamp /\ TailRank(f.tail) < TailRank(g.tail)

\* sorted(subfolders)
RECURSIVE sorted(_)
sorted(S) ==
  IF S = {} THEN <<>>
  ELSE LET f == CHOOSE x \in S : \A y \in S \ {x} : NameLess(x, y)
       IN  <<f>> \o sorted(S \ {f})

\* aux_tools.py 66-68: list_subfolders(folder, do_sort); os.walk lists the names
\* in no particular order.
list_subfolders(S, do_sort) ==
  IF do_sort THEN sorted(S)
  ELSE CHOOSE q \in [1..Cardinality(S) -> S] : \A x \in S : \E i \in DOMAIN q : q[i] = x

\* aux_tools.py 133: f.endswith("_ignore")
EndsWithIgnore(f) == f.tail = "_ignore"

\* aux_tools.py 135: datetime.strptime(f, EXPERIMENT_DATETIME_STR_FORMAT); text left
\* over after the timestamp raises ValueError.
strptime(f) ==
  IF f.tail = "" THEN [ok |-> TRUE, t |-> f.stamp] ELSE [ok |-> FALSE, t |-> 0]

\* The bounds of the date filter taken as exclusive.
InDateRangeStrict(t, t_from, t_to) == t_from < t /\ t < t_to

\* aux_tools.py 141: self.start_datetime <= t <= self.end_datetime
InDateRange(t, t_from, t_to) == t_from <= t /\ t <= t_to

\* aux_tools.py 132: list_subfolders(self.main_folder, True) is evaluated.
run_list_subfolders ==
  /\ tr_pc = "start"
  /\ subfolders' = list_subfolders(main_folder, TRUE)
  /\ tr_pc' = "loop"
  /\ UNCHANGED <<syncvars, playvars, batchvars, main_folder, start_datetime,
                 end_datetime, f_idx, processed, skipped, done_calls>>

\* aux_tools.py 132-142: the body of the for loop for the next folder.
run_visit ==
  /\ tr_pc = "loop"
  /\ f_idx < Len(subfolders)
  /\ f_idx' = f_idx + 1
  /\ LET f == subfolders[f_idx + 1]
         r == strptime(f)
     IN  IF EndsWithIgnore(f)
         THEN UNCHANGED <<processed, skipped>>
         ELSE IF ~r.ok
         THEN skipped' = Append(skipped, f) /\ UNCHANGED processed
         ELSE IF InDateRange(r.t, start_datetime, end_datetime)
         THEN processed' = Append(processed, f) /\ UNCHANGED skipped
         ELSE UNCHANGED <<processed, skipped>>
  /\ UNCHANGED <<syncvars, playvars, batchvars, main_folder, start_datetime,
                 end_datetime, subfolders, done_calls, tr_pc>>

\* aux_tools.py 144: self.on_done()
run_on_done ==
  /\ tr_pc = "loop"
  /\ f_idx = Len(subfolders)
  /\ done_calls' = done_calls + 1
  /\ tr_pc' = "returned"
  /\ UNCHANGED <<syncvars, playvars, batchvars, main_folder, start_datetime,
                 end_datetime, subfolders, f_idx, processed, skipped>>

\* aux_tools.py 120-123: a traverser over any folder, with the default dates or a
\* date filter.
InitTraverse ==
  /\ SyncOff
  /\ PlayOff
  /\ BatchOff
  /\ p_t_cam = <<>>
  /\ main_folder \in SUBSET FolderNames
  /\ \E d \in {<<DatetimeMin, DatetimeMax>>, <<1, 1>>, <<1, MaxStamp>>} :
        start_datetime = d[1] /\ end_datetime = d[2]
  /\ subfolders = <<>>
  /\ f_idx = 0
  /\ processed = <<>>
  /\ skipped = <<>>
  /\ done_calls = 0
  /\ tr_pc = "start"

NextTraverse ==
  \/ run_list_subfolders
  \/ run_visit
  \/ run_on_done

SpecTraverse == InitTraverse /\ [][NextTraverse]_vars

\* ------------------------------------------------------------------------
\* Properties of generate_multicam_video (checked under SpecSync)
\* ------------------------------------------------------------------------

\* An alignment has been computed and its frame loop reached or passed.
Aligned == h5.complete

t_latest_start == LatestStart(cams, NumCams)

t_earliest_end == EarliestEnd(cams, NumCams)

Dist(c, j, k) == Abs(cams[c][j + 1] - t_cam[k])

\* C1: every entry of the frame-index table is the index of the real frame of that
\* camera whose timestamp is closest to the virtual timestamp, and of two equally
\* close frames the earlier index is stored.
C1_NearestEarlierOnTies ==
  Aligned =>
    \A c \in Cams : \A k \in 1..Len(t_cam) :
      LET idx == frame_nums[c][k]
      IN  /\ idx \in 0..(Len(cams[c]) - 1)
          /\ \A j \in 0..(Len(cams[c]) - 1) :
                \/ Dist(c, idx, k) < Dist(c, j, k)
                \/ Dist(c, idx, k) = Dist(c, j, k) /\ idx <= j

\* C1, its example in tenths of a second: A = [0.0, 1.0, 2.0], B = [0.1, 1.1, 2.1],
\* fps = 1 give the timeline [0.1, 1.1] and the rows A = [0, 1], B = [0, 1].
C1_Example ==
  LET A  == <<0, 10, 20>>
      B  == <<1, 11, 21>>
      ts == <<A, B, A, B>>
      r  == FrameNums(ts, LatestStart(ts, NumCams),
                      date_range(LatestStart(ts, NumCams), EarliestEnd(ts, NumCams), 10))
  IN  r.kind = "ok" /\ r.t_cam = <<1, 11>> /\ r.frame_nums = << <<0, 1>>, <<0, 1>>, <<0, 1>>, <<0, 1>> >>

\* C2 as claimed: with overlapping coverage and fps > 0 the timeline starts at the
\* latest stream start, steps by exactly 1/fps seconds, stays strictly before the
\* earliest stream end, leaves no room for a further step, and lies inside every
\* camera's covered interval.
C2_StepExactlyOneOverFps ==
  (Aligned /\ h5.fps > 0) =>
    /\ t_cam[1] = t_latest_start
    /\ \A k \in 1..(Len(t_cam) - 1) : (t_cam[k + 1] - t_cam[k]) * h5.fps = TicksPerSec
    /\ \A k \in 1..Len(t_cam) : t_cam[k] < t_earliest_end
    /\ Last(t_cam) * h5.fps + TicksPerSec >= t_earliest_end * h5.fps
    /\ \A c \in Cams : \A k \in 1..Len(t_cam) :
          cams[c][1] <= t_cam[k] /\ t_cam[k] <= Last(cams[c])

\* C2 amended: the step is timedelta(seconds=1.0/fps), that is 1/fps seconds rounded
\* to a whole number of ticks (and not zero); all the rest as claimed.
C2_TimelineHalfOpenRange ==
  (Aligned /\ h5.fps > 0) =>
    /\ t_latest_start < t_earliest_end
    /\ Timedelta(h5.fps) > 0
    /\ Len(t_cam) >= 1
    /\ t_cam[1] = t_latest_start
    /\ \A k \in 1..(Len(t_cam) - 1) : t_cam[k + 1] - t_cam[k] = Timedelta(h5.fps)
    /\ \A k \in 1..Len(t_cam) : t_cam[k] < t_earliest_end
    /\ Last(t_cam) + Timedelta(h5.fps) >= t_earliest_end
    /\ \A c \in Cams : \A k \in 1..Len(t_cam) :
          cams[c][1] <= t_cam[k] /\ t_cam[k] <= Last(cams[c])

\* C2, its case: a timeline of at least three entries whose step 1/fps is not a
\* whole number of ticks.
C2_Witness ==
  /\ Aligned
  /\ h5.fps > 0
  /\ TicksPerSec % h5.fps # 0
  /\ Len(t_cam) >= 3

\* C3: with no overlapping coverage (t_latest_start >= t_earliest_end) every call
\* ends in an error and no persisted alignment is created or left behind.
C3_NoOverlapIsConfigError ==
  (t_latest_start >= t_earliest_end /\ outcome # "none") =>
    /\ outcome \in {"ZeroDivisionError", "Exception", "ValueError", "IndexError", "ConfigError"}
    /\ ~h5.exists

\* C4: a run with overwrite=false that finds a persisted alignment is a no-op that
\* returns the existing artifact (alignment and stitched video stay as they were),
\* and an existing alignment is only rewritten by a run with overwrite=true.
C4_NoOverwriteIsNoOp ==
  /\ [][(pc = "idle" /\ h5.exists /\ ~args'.overwrite)
          => (h5' = h5 /\ video' = video /\ outcome' = "existing")]_vars
  /\ [][(h5.exists /\ h5' # h5) => (pc = "idle" /\ args'.overwrite)]_vars

\* C4, its case: a run that aborted on an empty timeline left an (empty) alignment
\* file behind, and a later run with overwrite=false has returned the existing output.
C4_Witness ==
  /\ h5.exists
  /\ ~h5.complete
  /\ outcome = "existing"

\* C5: the timeline generate_video rebuilds from the persisted t_start, t_end and
\* fps equals the timeline generate_multicam_video computed when it wrote them, and
\* has one entry per column of the persisted frame_nums.
C5_TimelineRoundTrip ==
  outcome = "opened" =>
    /\ p_t_cam = t_cam
    /\ \A c \in Cams : Len(p_t_cam) = Len(h5.frame_nums[c])

\* C6: a failed frame read is fatal, never skipped: no output frame is written by
\* generate_multicam_video for a virtual timestamp at which the read of a camera's
\* selected frame failed.
C6_ReadFailureIsFatal ==
  \A i \in 1..Len(video.frames) : video.frames[i].failed = {}

\* C7: the playback loop ends only with the cursor at the last frame of the video
\* or on an exit command: a session that has returned without an exit command has
\* its cursor on the last frame of the video (or beyond).
C7_LoopEndsOnlyAtLastFrameOrExit ==
  (p_pc = "done" /\ ~step.exit) => n >= cfg.frames - 1

\* The cursor before the key of a pass is applied: line 169 has advanced it unless
\* the player is paused with no frame skip pending.
CursorInPass == IF ~is_paused \/ do_skip_frames THEN n + 1 ELSE n

\* C8: after an arrow key (8 or 80 frames back or forth) the cursor is a valid
\* position of the stream: 0 when the step led below 0, the frame count when it led
\* beyond it, the target otherwise; it is never negative, t_cam is never indexed
\* outside its range, and no error is raised.
C8_NavigationClamps ==
  /\ [][(p_pc' = "loop" /\ step'.moved # 0)
          => /\ n' \in 0..cfg.frames
             /\ (CursorInPass + step'.moved < 0 => n' = 0)
             /\ (CursorInPass + step'.moved > cfg.frames => n' = cfg.frames)
             /\ (CursorInPass + step'.moved \in 0..cfg.frames
                  => n' = CursorInPass + step'.moved)]_vars
  /\ [](p_pc # "aborted")

\* C8, its case: an arrow key led below index 0 and the cursor is at 0.
C8_Witness ==
  /\ p_pc = "loop"
  /\ step.polled
  /\ step.moved < 0
  /\ shown >= 1
  /\ n = 0

\* C9: every video and encoder handle a call of generate_multicam_video opened has
\* been released when the call has ended, however it ended.
C9_HandlesReleased ==
  (pc \in {"idle", "opening"} /\ outcome \notin {"none", "opened", "KeyError"})
    => handles = {}

FailedTasks == {t \in 1..Len(fails) : fails[t]}

\* The numbers of s, ascending, as a sequence.
RECURSIVE Ascending(_)
Ascending(S) ==
  IF S = {} THEN <<>>
  ELSE LET m == CHOOSE x \in S : \A y \in S : x <= y
       IN  <<m>> \o Ascending(S \ {m})

\* C10: in batch mode the coordinator always terminates, and when it does every
\* task has run to completion exactly once with its own outcome (a failed task did
\* not change a sibling's, none was retried) and exactly the failed tasks have been
\* reported, by number, in the order they were waited for.
C10_BatchFailuresIsolated ==
  /\ <>(m_pc = "exited")
  /\ [](m_pc = "exited" =>
          /\ Len(tasks) = Len(fails)
          /\ \A t \in 1..Len(tasks) :
                /\ tasks[t] = IF fails[t] THEN "failed" ELSE "ok"
                /\ runs[t] = 1
          /\ reported = Ascending(FailedTasks))
  /\ [][m_i' # m_i => (m_i' = m_i + 1 /\ tasks[m_i'] \in {"ok", "failed"})]_vars
  /\ [][\A t \in 1..Len(tasks) :
          tasks[t] \in {"ok", "failed"} => (tasks'[t] = tasks[t] /\ runs'[t] = runs[t])]_vars

\* C10, its case: the batch has ended with a failed task reported and a task that
\* succeeded after it.
C10_Witness ==
  /\ m_pc = "exited"
  /\ Len(fails) = MaxFolders
  /\ fails[1]
  /\ ~fails[MaxFolders]
  /\ reported # <<>>

\* ------------------------------------------------------------------------
\* Properties of the keys of generate_video (checked under SpecPlay)

\* A loop pass that has reached cv2.waitKeyEx; step'.key is what it returned.
KeyPass == p_pc = "loop" /\ step'.polled /\ (p_pc' = "loop" \/ step'.exit)

\* The keys with a branch of their own whatever the mode.
BoundKeys == {"left", "right", "up", "down", "a", "d", "w", "s", "space"}

\* C11: with no event callback, Escape and every key other than space, the arrows
\* and a/d/w/s end the session (and no other key does); with a callback, a key
\* that is none of these, nor b, n or Escape, does not end the session and leaves
\* the cursor, the time offset and the pause flag as they were.
C11_ExitKeyDependsOnCallback ==
  [][KeyPass =>
      /\ (~cfg.has_cb /\ step'.key \notin BoundKeys \cup {"none"})
            => (p_pc' = "done" /\ step'.exit)
      /\ (~cfg.has_cb /\ step'.key \in BoundKeys \cup {"none"})
            => (p_pc' = "loop" /\ ~step'.exit)
      /\ (cfg.has_cb /\ step'.key = "other")
            => /\ p_pc' = "loop"
               /\ ~step'.exit
               /\ n' = CursorInPass
               /\ weight_to_cam_t_offset' = weight_to_cam_t_offset
               /\ is_paused' = is_paused]_vars

\* C11, its case: a labelling session (callback configured) that got an
\* unrecognized key while paused and goes on.
C11_Witness ==
  /\ p_pc = "loop"
  /\ cfg.has_cb
  /\ step.polled
  /\ step.key = "other"
  /\ is_paused
  /\ n > 0

\* C12: in units of 0.1 s, 'a' moves the time offset by -10, 'd' by +10, 'w' by -1
\* and 's' by +1 (so after any sequence of commands it is the initial value plus
\* 10 x (#d - #a) + (#s - #w)); no other key or loop step changes it; these four
\* keys change neither the cursor nor the pause flag; and generate_video returns
\* (final offset, first weight timestamp minus final offset).
C12_OffsetArithmetic ==
  /\ [][weight_to_cam_t_offset' - weight_to_cam_t_offset =
          IF ~KeyPass THEN 0
          ELSE CASE step'.key = "a" -> -IncrementsPerSec
                 [] step'.key = "d" -> IncrementsPerSec
                 [] step'.key = "w" -> -1
                 [] step'.key = "s" -> 1
                 [] OTHER -> 0]_vars
  /\ [][(KeyPass /\ step'.key \in {"a", "d", "w", "s"})
          => (n' = CursorInPass /\ is_paused' = is_paused /\ p_pc' = "loop")]_vars
  /\ [](p_pc = "done"
         => p_ret = <<weight_to_cam_t_offset, WeightT0 - weight_to_cam_t_offset>>)

\* C12, its case: a session that has returned after 'd' and 'w' (+1.0 s - 0.1 s).
C12_Witness ==
  /\ p_pc = "done"
  /\ weight_to_cam_t_offset = InitialOffset + IncrementsPerSec - 1
  /\ p_ret[2] = WeightT0 - InitialOffset - IncrementsPerSec + 1

\* C13: with a callback configured, a press of 'b' (of 'n') calls it once, within
\* the pass, with (TRUE, t) (with (FALSE, t)), t being t_cam at the cursor, and
\* changes neither the cursor, the time offset nor the pause flag; no other key and
\* no pass without a key emits an event; without a callback no event is emitted.
C13_EventCallback ==
  /\ [][(KeyPass /\ cfg.has_cb /\ step'.key \in {"b", "n"})
          => /\ step'.event = <<step'.key = "b", p_t_cam[CursorInPass + 1]>>
             /\ n' = CursorInPass
             /\ step'.event[2] = p_t_cam[n' + 1]
             /\ weight_to_cam_t_offset' = weight_to_cam_t_offset
             /\ is_paused' = is_paused
             /\ p_pc' = "loop"]_vars
  /\ [](step.event # <<>> => (cfg.has_cb /\ step.polled /\ step.key \in {"b", "n"}))

\* C13, its case: a labelling session that has just marked a segment end at a
\* cursor reached by an Up arrow.
C13_Witness ==
  /\ p_pc = "loop"
  /\ cfg.has_cb
  /\ step.key = "n"
  /\ n = FRAME_INCREMENT + 1
  /\ step.event = <<FALSE, p_t_cam[n + 1]>>

\* ------------------------------------------------------------------------
\* Properties of the persisted table (checked under SpecSync and SpecLong)

\* C14: every row of the persisted frame_nums is non-decreasing along the timeline.
C14_RowsNonDecreasing ==
  Aligned =>
    \A c \in Cams : \A k \in 1..(Len(h5.frame_nums[c]) - 1) :
      h5.frame_nums[c][k] <= h5.frame_nums[c][k + 1]

\* ------------------------------------------------------------------------
\* Properties of ExperimentTraverser.run (checked under SpecTraverse)

\* C15: when run has returned, process_subfolder was called exactly on the folders
\* whose name does not end in "_ignore", is a timestamp and lies within
\* [start_datetime, end_datetime], in ascending order; exactly the other names that
\* are no timestamp were logged; every folder was visited; on_done was called once,
\* and it is not called before the last folder was visited.
C15_TraverserFilters ==
  /\ tr_pc = "returned" =>
        /\ f_idx = Cardinality(main_folder)
        /\ \A i \in 1..Len(processed) : processed[i].tail = ""
        /\ [i \in 1..Len(processed) |-> processed[i].stamp] =
             Ascending({f.stamp : f \in {g \in main_folder :
                          /\ g.tail = ""
                          /\ g.stamp >= start_datetime
                          /\ g.stamp <= end_datetime}})
        /\ \A i \in 1..Len(skipped) : skipped[i].tail = "_old"
        /\ [i \in 1..Len(skipped) |-> skipped[i].stamp] =
             Ascending({f.stamp : f \in {g \in main_folder : g.tail = "_old"}})
        /\ done_calls = 1
  /\ tr_pc \in {"start", "loop"} => done_calls = 0

\* C15, its case: a traversal that has returned after it processed a folder dated
\* at each end of the date filter, met an ignored folder, a name that is no
\* timestamp, and a folder dated before the filter.
C15_Witness ==
  /\ tr_pc = "returned"
  /\ start_datetime = 1
  /\ end_datetime = MaxStamp
  /\ Len(processed) >= 2
  /\ processed[1].stamp = start_datetime
  /\ processed[Len(processed)].stamp = end_datetime
  /\ [stamp |-> 0, tail |-> ""] \in main_folder
  /\ [stamp |-> 1, tail |-> "_ignore"] \in main_folder
  /\ skipped # <<>>

\* ------------------------------------------------------------------------
\* Properties of the timeline (checked under SpecSync)

\* C16: a call of generate_multicam_video whose time step timedelta(1/video_fps) is
\* zero ends at once with the exception of date_range: it does not hang, and
\* nothing is created or written; and date_range raises for no other step.
C16_ZeroStepRaises ==
  /\ [][(pc = "idle" /\ outcome' # "existing" /\ args'.video_fps > 0
          /\ Timedelta(args'.video_fps) = 0)
          => /\ outcome' = "Exception"
             /\ pc' = "idle"
             /\ video' = video
             /\ h5' = h5
             /\ t_cam' = t_cam
             /\ frame_nums' = frame_nums]_vars
  /\ [][(pc = "idle" /\ outcome' = "Exception")
          => (args'.video_fps > 0 /\ Timedelta(args'.video_fps) = 0)]_vars
  /\ [](outcome = "Exception" => pc = "idle")

\* C16, its case: a call at a rate whose period rounds to a zero timedelta has
\* raised, with overlapping cameras and nothing on disk.
C16_Witness ==
  /\ outcome = "Exception"
  /\ pc = "idle"
  /\ args.video_fps = 2 * TicksPerSec + 1
  /\ t_latest_start < t_earliest_end
  /\ ~video.exists
  /\ ~h5.exists

\* ------------------------------------------------------------------------
\* Properties of the playback loop (checked under SpecPlay)

\* C17: space toggles the pause flag and changes neither the cursor nor the time
\* offset, ends nothing and emits nothing, and no other key or step changes the
\* flag; a pass entered while not paused advances the cursor by exactly one and
\* reads one frame from the video; a pass entered while paused with no frame skip
\* pending neither advances the cursor nor reads a frame (the cursor then changes
\* only by an arrow key of that pass).
C17_PauseSemantics ==
  /\ [][(KeyPass /\ step'.key = "space")
          => /\ is_paused' = ~is_paused
             /\ n' = CursorInPass
             /\ weight_to_cam_t_offset' = weight_to_cam_t_offset
             /\ p_pc' = "loop"
             /\ step'.event = <<>>]_vars
  /\ [][is_paused' # is_paused => (KeyPass /\ step'.key = "space")]_vars
  /\ [][(p_pc = "loop" /\ n < Len(p_t_cam) - 1 /\ ~is_paused)
          => /\ step'.advanced
             /\ CursorInPass = n + 1
             /\ (pos < cfg.frames => step'.read_ok)
             /\ (step'.moved = 0 => (n' = n + 1 /\ (step'.read_ok => pos' = pos + 1)))]_vars
  /\ [][(p_pc = "loop" /\ n < Len(p_t_cam) - 1 /\ is_paused /\ ~do_skip_frames)
          => /\ ~step'.advanced
             /\ ~step'.read_ok
             /\ shown' = shown
             /\ (step'.moved = 0 => (n' = n /\ pos' = pos))]_vars

\* C17, its case: a session paused by space in which a further key was polled
\* without the cursor moving.
C17_Witness ==
  /\ p_pc = "loop"
  /\ is_paused
  /\ ~do_skip_frames
  /\ step.polled
  /\ ~step.advanced
  /\ step.key \in {"w", "other", "b"}
  /\ n > 0

\* elapsed_weight_time of the pass about to be made: t_cam at the cursor of the
\* pass, less the time offset.
ElapsedInPass == p_t_cam[CursorInPass + 1] - weight_to_cam_t_offset

\* C18: in every pass whose elapsed_weight_time lies below a positive t_start or
\* above a positive t_end nothing is composited, written to the encoder or
\* displayed, no key is polled, and the cursor is left where the pass put it.
C18_ClipWindowSkips ==
  [][(/\ p_pc = "loop"
      /\ n < Len(p_t_cam) - 1
      /\ \/ (cfg.t_start > 0 /\ ElapsedInPass < cfg.t_start)
         \/ (cfg.t_end > 0 /\ ElapsedInPass > cfg.t_end))
      => /\ ~step'.composited
         /\ ~step'.written
         /\ ~step'.displayed
         /\ ~step'.polled
         /\ n' = CursorInPass
         /\ weight_to_cam_t_offset' = weight_to_cam_t_offset
         /\ p_pc' = "loop"]_vars

\* C18, its case: a saving session played past the end of its clip window; the
\* last pass decoded a frame and wrote nothing.
C18_Witness ==
  /\ p_pc = "loop"
  /\ cfg.save_video
  /\ cfg.t_end = ClipTo
  /\ n \in 0..(Len(p_t_cam) - 1)
  /\ p_t_cam[n + 1] - weight_to_cam_t_offset > cfg.t_end
  /\ step.advanced
  /\ ~step.written
  /\ ~step.composited

\* C19: after a pass that composited, displayed or wrote a frame or reported an
\* event (and did not move the cursor by an arrow key afterwards), the cursor n is
\* the index of the frame most recently decoded from the video.
C19_CursorIsDecodedFrame ==
  (/\ p_pc = "loop"
   /\ step.moved = 0
   /\ step.composited \/ step.displayed \/ step.written \/ step.event # <<>>)
    => shown = n

\* C20: with visualization enabled the pass the loop is about to make either
\* advances the cursor or reaches the key poll: no reachable state has the player
\* paused, with no frame skip pending, and due to skip the pass at the clip test (a
\* pass that would change nothing and so be repeated for ever).
C20_NoSpinWithoutProgress ==
  (p_pc = "loop" /\ cfg.visualize /\ n < Len(p_t_cam) - 1)
    => \/ ~is_paused
       \/ do_skip_frames
       \/ ~refresh_weight
       \/ ~PlayClipSkip(p_t_cam[n + 1] - weight_to_cam_t_offset, cfg.t_start, cfg.t_end)

\* ------------------------------------------------------------------------
\* Properties of the stitched video (checked under SpecSync and SpecLong)

\* C21: when generate_video has opened the stitched video in multicam mode, the
\* video holds one frame per entry of the virtual timeline, in timeline order: its
\* k-th frame is the one composed for entry k.
C21_FramePerTimelineEntry ==
  outcome = "opened" =>
    /\ Len(video.frames) = Len(t_cam)
    /\ \A k \in 1..Len(video.frames) : video.frames[k].n = k - 1

C23_TimelineLoopEnds ==
  /\ pc # "hung"
  /\ outcome # "diverge"

====
